---- MODULE Spec2Model ----
(***************************************************************************)
(* A model of the two RAG evaluation demos of LLMOps-Hunter:               *)
(*   code/llmops_trend_demo.py    (Pipeline A: retrieve, answer, score,    *)
(*                                 write a markdown report)                *)
(*   code/rag_evaluation_demo.py  (Pipeline B: four ratio metrics)         *)
(*                                                                         *)
(* Text.  A Python str is modelled as the sequence of its Unicode code     *)
(* points (ord of each character), so "a b" is << 97, 32, 98 >>.  The      *)
(* model covers strings over ASCII plus the two non-ASCII characters the   *)
(* program's own constants use (U+2011, U+2013), for which str.lower() is  *)
(* the identity.                                                           *)
(*                                                                         *)
(* Numbers.  A Python float that is the quotient of two integers is kept   *)
(* as the exact fraction [num, den]; a fraction with den = 0 stands for    *)
(* the ZeroDivisionError that Python's "/" raises.  Values the program     *)
(* rounds are kept as scaled integers: groundedness in thousandths         *)
(* (round(g, 3)), cost in millionths of a dollar (round(c, 6)), Pipeline   *)
(* B's metrics in hundredths (round(m, 2)).                                *)
(***************************************************************************)
EXTENDS Integers, Sequences, FiniteSets, TLC

VARIABLES
    pc,          \* Pipeline A: where main() stands: "idle", "evaluate", "write_report", "done"
    report_dir,  \* Pipeline A: main()'s local report_dir, << >> before main() sets it
    results,     \* Pipeline A: the list evaluate() builds and write_report() reads
    clock,       \* the day datetime.utcnow() falls on (an index into the calendar)
    fs,          \* the filesystem under the report directory: [dir, files]
    console,     \* the lines printed to stdout
    raised,      \* the exception the last write_report call ended with, or "none"
    date_str,    \* write_report's local date_str, as of its last call
    runs,        \* number of main() runs / write_report calls started so far
    call,        \* the last direct call of a pure function: its name and arguments
    ret          \* what that call returned

vars == << pc, report_dir, results, clock, fs, console, raised, date_str, runs, call, ret >>

(***************************************************************************)
(* Bounds of the model.                                                    *)
(***************************************************************************)
MaxLen == 3        \* longest generated answer string (contexts: one character less)
MaxQLen == 3       \* longest generated question for retrieve
MaxDocs == 2       \* longest generated corpus
MaxFrags == 2      \* most keyword fragments in a generated question
MaxItems == 2      \* longest generated Pipeline B dataset
MaxCtx == 2        \* longest generated retrieved_contexts list
MaxRuns == 2       \* most calls of write_report
MaxDay == 1        \* last day the clock reaches (days 0..MaxDay)
MaxResults == 2    \* longest generated results list for write_report

(***************************************************************************)
(* Program constants.                                                      *)
(***************************************************************************)
BaseLatency == 50      \* int(50 + ...)
RandMax == 20          \* random.randint(0, 20)
MsPerToken == 2        \* 2.0 * tokens
MicroUsdPerToken == 10 \* 0.00001 * tokens, in millionths of a USD
LF == 10               \* "\n"
SP == 32               \* " "
DOT == 46              \* "."

(***************************************************************************)
(* Strings.                                                                *)
(***************************************************************************)
\* str.lower(): ASCII capitals map to their small letters.
Lower(c) == IF c \in 65..90 THEN c + 32 ELSE c

\* A sequence given as a function on 1..n, as the tuple of its values.
AsTuple(f) == << >> \o f

lower(s) == AsTuple([i \in DOMAIN s |-> Lower(s[i])])

\* The character class [a-z0-9] of the tokenizer's pattern.
IsTokenChar(c) == c \in 97..122 \/ c \in 48..57

\* Python's "sub in s" on strings.
In(sub, s) == \E i \in 0..(Len(s) - Len(sub)) : SubSeq(s, i + 1, i + Len(sub)) = sub

ToSet(seq) == {seq[i] : i \in DOMAIN seq}

\* All strings over alphabet of length at most n.
Strings(alphabet, n) == UNION {[1..k -> alphabet] : k \in 0..n}

\* re.findall(r"[a-z0-9]+", s): rest[from] is the list of matches found from
\* position "from" on.  The next match starts at the first token character and runs
\* to the last one before another character or the end of s; the search resumes
\* after it.
FindAll(s) ==
    LET n == Len(s)
        rest[from \in 1..(n + 1)] ==
            IF \A i \in from..n : ~IsTokenChar(s[i]) THEN << >>
            ELSE LET st == CHOOSE i \in from..n :
                              IsTokenChar(s[i]) /\ \A j \in from..(i - 1) : ~IsTokenChar(s[j])
                     en == CHOOSE j \in st..n :
                              /\ \A m \in st..j : IsTokenChar(s[m])
                              /\ (j = n \/ ~IsTokenChar(s[j + 1]))
                 IN  << SubSeq(s, st, en) >> \o rest[en + 1]
    IN  rest[1]

\* re.findall(r"[a-z0-9]+", text.lower())
tokenize(text) == FindAll(lower(text))

\* ---- CORPUS texts (llmops_trend_demo.py:30-54) ----
\* 'LLM Evaluation Best Practices'
Doc1Title ==
    << 76, 76, 77, 32, 69, 118, 97, 108, 117, 97, 116, 105, 111, 110, 32, 66, 101, 115, 116, 32,
       80, 114, 97, 99, 116, 105, 99, 101, 115 >>

\* 'Groundedness measures how well an LLM answer relies on the provided context. Toxicity, latency and cost are also common evaluation metrics.'
Doc1Text ==
    << 71, 114, 111, 117, 110, 100, 101, 100, 110, 101, 115, 115, 32, 109, 101, 97, 115, 117, 114,
       101, 115, 32, 104, 111, 119, 32, 119, 101, 108, 108, 32, 97, 110, 32, 76, 76, 77, 32, 97,
       110, 115, 119, 101, 114, 32, 114, 101, 108, 105, 101, 115, 32, 111, 110, 32, 116, 104, 101,
       32, 112, 114, 111, 118, 105, 100, 101, 100, 32, 99, 111, 110, 116, 101, 120, 116, 46, 32,
       84, 111, 120, 105, 99, 105, 116, 121, 44, 32, 108, 97, 116, 101, 110, 99, 121, 32, 97, 110,
       100, 32, 99, 111, 115, 116, 32, 97, 114, 101, 32, 97, 108, 115, 111, 32, 99, 111, 109, 109,
       111, 110, 32, 101, 118, 97, 108, 117, 97, 116, 105, 111, 110, 32, 109, 101, 116, 114, 105,
       99, 115, 46 >>

\* 'Cost Optimization'
Doc2Title ==
    << 67, 111, 115, 116, 32, 79, 112, 116, 105, 109, 105, 122, 97, 116, 105, 111, 110 >>

\* 'To reduce inference cost, use smaller models and caching. Selective routing can pick the right model size on demand.'
Doc2Text ==
    << 84, 111, 32, 114, 101, 100, 117, 99, 101, 32, 105, 110, 102, 101, 114, 101, 110, 99, 101,
       32, 99, 111, 115, 116, 44, 32, 117, 115, 101, 32, 115, 109, 97, 108, 108, 101, 114, 32, 109,
       111, 100, 101, 108, 115, 32, 97, 110, 100, 32, 99, 97, 99, 104, 105, 110, 103, 46, 32, 83,
       101, 108, 101, 99, 116, 105, 118, 101, 32, 114, 111, 117, 116, 105, 110, 103, 32, 99, 97,
       110, 32, 112, 105, 99, 107, 32, 116, 104, 101, 32, 114, 105, 103, 104, 116, 32, 109, 111,
       100, 101, 108, 32, 115, 105, 122, 101, 32, 111, 110, 32, 100, 101, 109, 97, 110, 100, 46 >>

\* 'Agentic RAG'
Doc3Title ==
    << 65, 103, 101, 110, 116, 105, 99, 32, 82, 65, 71 >>

\* 'Agentic RAG adds planning and tool use to retrieval<U+2011>augmented generation. It often re<U+2011>queries or verifies intermediate results.'
Doc3Text ==
    << 65, 103, 101, 110, 116, 105, 99, 32, 82, 65, 71, 32, 97, 100, 100, 115, 32, 112, 108, 97,
       110, 110, 105, 110, 103, 32, 97, 110, 100, 32, 116, 111, 111, 108, 32, 117, 115, 101, 32,
       116, 111, 32, 114, 101, 116, 114, 105, 101, 118, 97, 108, 8209, 97, 117, 103, 109, 101, 110,
       116, 101, 100, 32, 103, 101, 110, 101, 114, 97, 116, 105, 111, 110, 46, 32, 73, 116, 32,
       111, 102, 116, 101, 110, 32, 114, 101, 8209, 113, 117, 101, 114, 105, 101, 115, 32, 111,
       114, 32, 118, 101, 114, 105, 102, 105, 101, 115, 32, 105, 110, 116, 101, 114, 109, 101, 100,
       105, 97, 116, 101, 32, 114, 101, 115, 117, 108, 116, 115, 46 >>

\* 'What does groundedness measure in LLM evaluation?'
Q1Question ==
    << 87, 104, 97, 116, 32, 100, 111, 101, 115, 32, 103, 114, 111, 117, 110, 100, 101, 100, 110,
       101, 115, 115, 32, 109, 101, 97, 115, 117, 114, 101, 32, 105, 110, 32, 76, 76, 77, 32, 101,
       118, 97, 108, 117, 97, 116, 105, 111, 110, 63 >>

\* 'It measures how much the answer relies on the provided context.'
Q1Expected ==
    << 73, 116, 32, 109, 101, 97, 115, 117, 114, 101, 115, 32, 104, 111, 119, 32, 109, 117, 99,
       104, 32, 116, 104, 101, 32, 97, 110, 115, 119, 101, 114, 32, 114, 101, 108, 105, 101, 115,
       32, 111, 110, 32, 116, 104, 101, 32, 112, 114, 111, 118, 105, 100, 101, 100, 32, 99, 111,
       110, 116, 101, 120, 116, 46 >>

\* 'Name two methods to reduce inference cost.'
Q2Question ==
    << 78, 97, 109, 101, 32, 116, 119, 111, 32, 109, 101, 116, 104, 111, 100, 115, 32, 116, 111,
       32, 114, 101, 100, 117, 99, 101, 32, 105, 110, 102, 101, 114, 101, 110, 99, 101, 32, 99,
       111, 115, 116, 46 >>

\* 'Use smaller models and caching.'
Q2Expected ==
    << 85, 115, 101, 32, 115, 109, 97, 108, 108, 101, 114, 32, 109, 111, 100, 101, 108, 115, 32,
       97, 110, 100, 32, 99, 97, 99, 104, 105, 110, 103, 46 >>

\* 'What does Agentic RAG add to standard RAG?'
Q3Question ==
    << 87, 104, 97, 116, 32, 100, 111, 101, 115, 32, 65, 103, 101, 110, 116, 105, 99, 32, 82, 65,
       71, 32, 97, 100, 100, 32, 116, 111, 32, 115, 116, 97, 110, 100, 97, 114, 100, 32, 82, 65,
       71, 63 >>

\* 'It adds planning and tool use.'
Q3Expected ==
    << 73, 116, 32, 97, 100, 100, 115, 32, 112, 108, 97, 110, 110, 105, 110, 103, 32, 97, 110, 100,
       32, 116, 111, 111, 108, 32, 117, 115, 101, 46 >>

\* 'What is the capital of France?'
Item1Query ==
    << 87, 104, 97, 116, 32, 105, 115, 32, 116, 104, 101, 32, 99, 97, 112, 105, 116, 97, 108, 32,
       111, 102, 32, 70, 114, 97, 110, 99, 101, 63 >>

\* 'Paris'
Item1Expected ==
    << 80, 97, 114, 105, 115 >>

\* 'Paris is the capital of France.'
\* 'France is located in Europe.'
\* 'The population of the city is about 2 million.'
Item1Contexts ==
    << << 80, 97, 114, 105, 115, 32, 105, 115, 32, 116, 104, 101, 32, 99, 97, 112, 105, 116, 97, 108,
          32, 111, 102, 32, 70, 114, 97, 110, 99, 101, 46 >>,
       << 70, 114, 97, 110, 99, 101, 32, 105, 115, 32, 108, 111, 99, 97, 116, 101, 100, 32, 105, 110,
          32, 69, 117, 114, 111, 112, 101, 46 >>,
       << 84, 104, 101, 32, 112, 111, 112, 117, 108, 97, 116, 105, 111, 110, 32, 111, 102, 32, 116,
          104, 101, 32, 99, 105, 116, 121, 32, 105, 115, 32, 97, 98, 111, 117, 116, 32, 50, 32, 109,
          105, 108, 108, 105, 111, 110, 46 >> >>

\* 'Paris is the capital of France.'
Item1Predicted ==
    << 80, 97, 114, 105, 115, 32, 105, 115, 32, 116, 104, 101, 32, 99, 97, 112, 105, 116, 97, 108,
       32, 111, 102, 32, 70, 114, 97, 110, 99, 101, 46 >>

\* 'Who wrote the novel 1984?'
Item2Query ==
    << 87, 104, 111, 32, 119, 114, 111, 116, 101, 32, 116, 104, 101, 32, 110, 111, 118, 101, 108,
       32, 49, 57, 56, 52, 63 >>

\* 'George Orwell'
Item2Expected ==
    << 71, 101, 111, 114, 103, 101, 32, 79, 114, 119, 101, 108, 108 >>

\* '1984 is a dystopian novel by George Orwell.'
\* 'It was published in 1949.'
\* 'Animal Farm is another book by the same author.'
Item2Contexts ==
    << << 49, 57, 56, 52, 32, 105, 115, 32, 97, 32, 100, 121, 115, 116, 111, 112, 105, 97, 110, 32,
          110, 111, 118, 101, 108, 32, 98, 121, 32, 71, 101, 111, 114, 103, 101, 32, 79, 114, 119,
          101, 108, 108, 46 >>,
       << 73, 116, 32, 119, 97, 115, 32, 112, 117, 98, 108, 105, 115, 104, 101, 100, 32, 105, 110, 32,
          49, 57, 52, 57, 46 >>,
       << 65, 110, 105, 109, 97, 108, 32, 70, 97, 114, 109, 32, 105, 115, 32, 97, 110, 111, 116, 104,
          101, 114, 32, 98, 111, 111, 107, 32, 98, 121, 32, 116, 104, 101, 32, 115, 97, 109, 101, 32,
          97, 117, 116, 104, 111, 114, 46 >> >>

\* 'George Orwell wrote 1984.'
Item2Predicted ==
    << 71, 101, 111, 114, 103, 101, 32, 79, 114, 119, 101, 108, 108, 32, 119, 114, 111, 116, 101,
       32, 49, 57, 56, 52, 46 >>

\* 'What is the largest planet in our solar system?'
Item3Query ==
    << 87, 104, 97, 116, 32, 105, 115, 32, 116, 104, 101, 32, 108, 97, 114, 103, 101, 115, 116, 32,
       112, 108, 97, 110, 101, 116, 32, 105, 110, 32, 111, 117, 114, 32, 115, 111, 108, 97, 114,
       32, 115, 121, 115, 116, 101, 109, 63 >>

\* 'Jupiter'
Item3Expected ==
    << 74, 117, 112, 105, 116, 101, 114 >>

\* 'Jupiter is the largest planet in the solar system.'
\* 'Mars is smaller than Earth.'
\* 'Saturn has large rings.'
Item3Contexts ==
    << << 74, 117, 112, 105, 116, 101, 114, 32, 105, 115, 32, 116, 104, 101, 32, 108, 97, 114, 103,
          101, 115, 116, 32, 112, 108, 97, 110, 101, 116, 32, 105, 110, 32, 116, 104, 101, 32, 115,
          111, 108, 97, 114, 32, 115, 121, 115, 116, 101, 109, 46 >>,
       << 77, 97, 114, 115, 32, 105, 115, 32, 115, 109, 97, 108, 108, 101, 114, 32, 116, 104, 97, 110,
          32, 69, 97, 114, 116, 104, 46 >>,
       << 83, 97, 116, 117, 114, 110, 32, 104, 97, 115, 32, 108, 97, 114, 103, 101, 32, 114, 105, 110,
          103, 115, 46 >> >>

\* 'Jupiter'
Item3Predicted ==
    << 74, 117, 112, 105, 116, 101, 114 >>

\* 'When did the Second World War end?'
Item4Query ==
    << 87, 104, 101, 110, 32, 100, 105, 100, 32, 116, 104, 101, 32, 83, 101, 99, 111, 110, 100, 32,
       87, 111, 114, 108, 100, 32, 87, 97, 114, 32, 101, 110, 100, 63 >>

\* '1945'
Item4Expected ==
    << 49, 57, 52, 53 >>

\* 'World War II ended in 1945.'
\* 'The war started in 1939.'
\* 'It involved many nations around the globe.'
Item4Contexts ==
    << << 87, 111, 114, 108, 100, 32, 87, 97, 114, 32, 73, 73, 32, 101, 110, 100, 101, 100, 32, 105,
          110, 32, 49, 57, 52, 53, 46 >>,
       << 84, 104, 101, 32, 119, 97, 114, 32, 115, 116, 97, 114, 116, 101, 100, 32, 105, 110, 32, 49,
          57, 51, 57, 46 >>,
       << 73, 116, 32, 105, 110, 118, 111, 108, 118, 101, 100, 32, 109, 97, 110, 121, 32, 110, 97,
          116, 105, 111, 110, 115, 32, 97, 114, 111, 117, 110, 100, 32, 116, 104, 101, 32, 103, 108,
          111, 98, 101, 46 >> >>

\* 'It ended in 1945.'
Item4Predicted ==
    << 73, 116, 32, 101, 110, 100, 101, 100, 32, 105, 110, 32, 49, 57, 52, 53, 46 >>

\* 'Who discovered penicillin?'
Item5Query ==
    << 87, 104, 111, 32, 100, 105, 115, 99, 111, 118, 101, 114, 101, 100, 32, 112, 101, 110, 105,
       99, 105, 108, 108, 105, 110, 63 >>

\* 'Alexander Fleming'
Item5Expected ==
    << 65, 108, 101, 120, 97, 110, 100, 101, 114, 32, 70, 108, 101, 109, 105, 110, 103 >>

\* 'Alexander Fleming discovered penicillin in 1928.'
\* 'Penicillin was the first true antibiotic.'
\* 'The discovery revolutionized medicine.'
Item5Contexts ==
    << << 65, 108, 101, 120, 97, 110, 100, 101, 114, 32, 70, 108, 101, 109, 105, 110, 103, 32, 100,
          105, 115, 99, 111, 118, 101, 114, 101, 100, 32, 112, 101, 110, 105, 99, 105, 108, 108, 105,
          110, 32, 105, 110, 32, 49, 57, 50, 56, 46 >>,
       << 80, 101, 110, 105, 99, 105, 108, 108, 105, 110, 32, 119, 97, 115, 32, 116, 104, 101, 32,
          102, 105, 114, 115, 116, 32, 116, 114, 117, 101, 32, 97, 110, 116, 105, 98, 105, 111, 116,
          105, 99, 46 >>,
       << 84, 104, 101, 32, 100, 105, 115, 99, 111, 118, 101, 114, 121, 32, 114, 101, 118, 111, 108,
          117, 116, 105, 111, 110, 105, 122, 101, 100, 32, 109, 101, 100, 105, 99, 105, 110, 101, 46 >> >>

\* 'Alexander Fleming'
Item5Predicted ==
    << 65, 108, 101, 120, 97, 110, 100, 101, 114, 32, 70, 108, 101, 109, 105, 110, 103 >>

\* 'groundedness'
KwGroundedness ==
    << 103, 114, 111, 117, 110, 100, 101, 100, 110, 101, 115, 115 >>

\* 'reduce inference cost'
KwReduceInferenceCost ==
    << 114, 101, 100, 117, 99, 101, 32, 105, 110, 102, 101, 114, 101, 110, 99, 101, 32, 99, 111,
       115, 116 >>

\* 'reduce cost'
KwReduceCost ==
    << 114, 101, 100, 117, 99, 101, 32, 99, 111, 115, 116 >>

\* 'agentic rag'
KwAgenticRag ==
    << 97, 103, 101, 110, 116, 105, 99, 32, 114, 97, 103 >>

\* 'It measures how much the answer relies on the provided context.'
AnsGroundedness ==
    << 73, 116, 32, 109, 101, 97, 115, 117, 114, 101, 115, 32, 104, 111, 119, 32, 109, 117, 99,
       104, 32, 116, 104, 101, 32, 97, 110, 115, 119, 101, 114, 32, 114, 101, 108, 105, 101, 115,
       32, 111, 110, 32, 116, 104, 101, 32, 112, 114, 111, 118, 105, 100, 101, 100, 32, 99, 111,
       110, 116, 101, 120, 116, 46 >>

\* 'Use smaller models and caching.'
AnsReduceCost ==
    << 85, 115, 101, 32, 115, 109, 97, 108, 108, 101, 114, 32, 109, 111, 100, 101, 108, 115, 32,
       97, 110, 100, 32, 99, 97, 99, 104, 105, 110, 103, 46 >>

\* 'It adds planning and tool use.'
AnsAgenticRag ==
    << 73, 116, 32, 97, 100, 100, 115, 32, 112, 108, 97, 110, 110, 105, 110, 103, 32, 97, 110, 100,
       32, 116, 111, 111, 108, 32, 117, 115, 101, 46 >>

\* '# RAGOps Evaluation <U+2013> '
TitlePrefix ==
    << 35, 32, 82, 65, 71, 79, 112, 115, 32, 69, 118, 97, 108, 117, 97, 116, 105, 111, 110, 32,
       8211, 32 >>

\* '## Summary'
SummaryHeader ==
    << 35, 35, 32, 83, 117, 109, 109, 97, 114, 121 >>

\* '- Average groundedness: **'
AvgGPrefix ==
    << 45, 32, 65, 118, 101, 114, 97, 103, 101, 32, 103, 114, 111, 117, 110, 100, 101, 100, 110,
       101, 115, 115, 58, 32, 42, 42 >>

\* '- Average latency (ms): **'
AvgLatPrefix ==
    << 45, 32, 65, 118, 101, 114, 97, 103, 101, 32, 108, 97, 116, 101, 110, 99, 121, 32, 40, 109,
       115, 41, 58, 32, 42, 42 >>

\* '- Average cost (USD): **'
AvgCostPrefix ==
    << 45, 32, 65, 118, 101, 114, 97, 103, 101, 32, 99, 111, 115, 116, 32, 40, 85, 83, 68, 41, 58,
       32, 42, 42 >>

\* '**'
BoldSuffix ==
    << 42, 42 >>

\* '## Detailed Results'
DetailHeader ==
    << 35, 35, 32, 68, 101, 116, 97, 105, 108, 101, 100, 32, 82, 101, 115, 117, 108, 116, 115 >>

\* '|Query|Doc|Groundedness|Latency (ms)|Cost (USD)|'
TableHeader ==
    << 124, 81, 117, 101, 114, 121, 124, 68, 111, 99, 124, 71, 114, 111, 117, 110, 100, 101, 100,
       110, 101, 115, 115, 124, 76, 97, 116, 101, 110, 99, 121, 32, 40, 109, 115, 41, 124, 67, 111,
       115, 116, 32, 40, 85, 83, 68, 41, 124 >>

\* '|---|---|---|---|---|'
TableRule ==
    << 124, 45, 45, 45, 124, 45, 45, 45, 124, 45, 45, 45, 124, 45, 45, 45, 124, 45, 45, 45, 124 >>

\* '-ragops-eval.md'
ReportSuffix ==
    << 45, 114, 97, 103, 111, 112, 115, 45, 101, 118, 97, 108, 46, 109, 100 >>

\* 'Report written to '
PrintPrefix ==
    << 82, 101, 112, 111, 114, 116, 32, 119, 114, 105, 116, 116, 101, 110, 32, 116, 111, 32 >>

\* 'reports'
ReportDirName ==
    << 114, 101, 112, 111, 114, 116, 115 >>

\* 'llmops_trend_demo.py'
ScriptName ==
    << 108, 108, 109, 111, 112, 115, 95, 116, 114, 101, 110, 100, 95, 100, 101, 109, 111, 46, 112,
       121 >>

\* 'code'
CodeDirName ==
    << 99, 111, 100, 101 >>

\* 'Evaluation metrics:'
MetricsHeader ==
    << 69, 118, 97, 108, 117, 97, 116, 105, 111, 110, 32, 109, 101, 116, 114, 105, 99, 115, 58 >>

\* 'contextual_recall'
\* 'contextual_precision'
\* 'answer_relevancy'
\* 'faithfulness'
MetricNames ==
    << << 99, 111, 110, 116, 101, 120, 116, 117, 97, 108, 95, 114, 101, 99, 97, 108, 108 >>,
       << 99, 111, 110, 116, 101, 120, 116, 117, 97, 108, 95, 112, 114, 101, 99, 105, 115, 105, 111,
          110 >>,
       << 97, 110, 115, 119, 101, 114, 95, 114, 101, 108, 101, 118, 97, 110, 99, 121 >>,
       << 102, 97, 105, 116, 104, 102, 117, 108, 110, 101, 115, 115 >> >>

\* 'doc1'
Doc1Id ==
    << 100, 111, 99, 49 >>

\* 'q1'
Q1Id ==
    << 113, 49 >>

\* 'doc2'
Doc2Id ==
    << 100, 111, 99, 50 >>

\* 'q2'
Q2Id ==
    << 113, 50 >>

\* 'doc3'
Doc3Id ==
    << 100, 111, 99, 51 >>

\* 'q3'
Q3Id ==
    << 113, 51 >>
(***************************************************************************)
(* Numbers.                                                                *)
(***************************************************************************)
\* Python's a / b on numbers: the exact quotient; den = 0 is ZeroDivisionError.
Div(a, b) == [num |-> a, den |-> b]

DivRaises(q) == q.den = 0

\* The exact quotient n / d rounded to the nearest integer, ties to even.
RoundHalfEven(n, d) ==
    LET q == n \div d
        r == n % d
    IN  IF 2 * r < d THEN q
        ELSE IF 2 * r > d THEN q + 1
        ELSE IF q % 2 = 0 THEN q ELSE q + 1

\* Whether the exact quotient n / d lies halfway between two integers.
IsTie(n, d) == (2 * n) % d = 0 /\ ((2 * n) \div d) % 2 = 1

Pow10(k) ==
    LET p[i \in 0..k] == IF i = 0 THEN 1 ELSE 10 * p[i - 1]
    IN  p[k]

\* The decimal digits of n >= 0, left-padded with "0" to at least width characters.
Digits(n, width) ==
    LET need == CHOOSE d \in 1..(n + 1) : n < Pow10(d) /\ (d = 1 \/ n >= Pow10(d - 1))
        w == IF width > need THEN width ELSE need
    IN  AsTuple([i \in 1..w |-> 48 + ((n \div Pow10(w - i)) % 10)])

\* "{:.<places>f}" of the non-negative value v / 10^places.
Fixed(v, places) ==
    Digits(v \div Pow10(places), 1) \o << DOT >> \o Digits(v % Pow10(places), places)

\* sum(s) of a list of integers.
SumSeq(s) ==
    LET sum[k \in 0..Len(s)] == IF k = 0 THEN 0 ELSE sum[k - 1] + s[k]
    IN  sum[Len(s)]

\* "sep".join(parts)
Join(parts, sep) ==
    LET joined[k \in 0..Len(parts)] ==
            IF k = 0 THEN << >>
            ELSE IF k = 1 THEN parts[1]
            ELSE joined[k - 1] \o sep \o parts[k]
    IN  joined[Len(parts)]

(***************************************************************************)
(* Binary floating point.  A Python float is an IEEE-754 double.  A        *)
(* positive double is the record [m, e]: m the MantBits bits of its        *)
(* significand, most significant first (m[1] = 1), and e the exponent of   *)
(* the last bit, so that its value is Nat(m) * 2^e.  0.0 is FZero.  The    *)
(* program's floats are non-negative and far from the subnormal and the    *)
(* overflow range, so neither signs nor those ranges are modelled.         *)
(***************************************************************************)
MantBits == 53

FZero == [m |-> << >>, e |-> 0]

Pow2(k) ==
    LET p[i \in 0..k] == IF i = 0 THEN 1 ELSE 2 * p[i - 1]
    IN  p[k]

\* The bits of the integer n, 0 < n < 2^30, most significant first.
NatBits(n) ==
    LET len == CHOOSE b \in 1..30 : n < Pow2(b) /\ n >= Pow2(b - 1)
    IN  AsTuple([i \in 1..len |-> (n \div Pow2(len - i)) % 2])

\* The integer a bit string stands for.
BitsNat(bits) ==
    LET v[k \in 0..Len(bits)] == IF k = 0 THEN 0 ELSE 2 * v[k - 1] + bits[k]
    IN  v[Len(bits)]

Zeros(k) == IF k <= 0 THEN << >> ELSE AsTuple([i \in 1..k |-> 0])

\* The bit string without its leading zeros.
Strip(bits) ==
    IF \A i \in DOMAIN bits : bits[i] = 0 THEN << >>
    ELSE LET k == CHOOSE i \in DOMAIN bits : bits[i] = 1 /\ \A j \in 1..(i - 1) : bits[j] = 0
         IN  SubSeq(bits, k, Len(bits))

\* The bit string of the next integer.
Inc(bits) ==
    IF \A i \in DOMAIN bits : bits[i] = 1 THEN << 1 >> \o Zeros(Len(bits))
    ELSE LET k == CHOOSE i \in DOMAIN bits :
                      bits[i] = 0 /\ \A j \in (i + 1)..Len(bits) : bits[j] = 1
         IN  AsTuple([i \in DOMAIN bits |-> IF i < k THEN bits[i] ELSE IF i = k THEN 1 ELSE 0])

\* The double nearest to Nat(bits) * 2^e, ties to the even significand: the
\* rounding every float operation ends with.
FRound(bits, e) ==
    LET sig == Strip(bits)
        n == Len(sig)
    IN  IF n = 0 THEN FZero
        ELSE IF n <= MantBits
        THEN [m |-> sig \o Zeros(MantBits - n), e |-> e - (MantBits - n)]
        ELSE LET kept == SubSeq(sig, 1, MantBits)
                 sticky == \E i \in (MantBits + 2)..n : sig[i] = 1
                 up == sig[MantBits + 1] = 1 /\ (sticky \/ kept[MantBits] = 1)
                 r == IF up THEN Inc(kept) ELSE kept
             IN  IF Len(r) > MantBits
                 THEN [m |-> SubSeq(r, 1, MantBits), e |-> e + (n - MantBits) + 1]
                 ELSE [m |-> r, e |-> e + (n - MantBits)]

\* Long arithmetic goes ten bits at a time.  Bits10(v) is the ten bits of
\* v < 1024; Limbs cuts a bit string, padded on the left, into ten-bit numbers
\* (most significant first) and Unlimbs puts the bit string together again.
Bits10(v) == AsTuple([i \in 1..10 |-> (v \div Pow2(10 - i)) % 2])

Limbs(bits) ==
    LET n == (Len(bits) + 9) \div 10
        p == Zeros(10 * n - Len(bits)) \o bits
    IN  AsTuple([j \in 1..n |-> BitsNat(SubSeq(p, 10 * (j - 1) + 1, 10 * j))])

Unlimbs(limbs) ==
    AsTuple([i \in 1..(10 * Len(limbs)) |->
                (limbs[((i - 1) \div 10) + 1] \div Pow2(9 - ((i - 1) % 10))) % 2])

\* The double p / q of two integers, p >= 0, 0 < q < 2^20, p / q < 2^30: the
\* quotient is developed by long division to 90 fractional bits, more than a
\* double holds, a last bit recording whether a remainder is left, and rounded.
\* Also float("d.ddd"): the double nearest to a decimal p / 10^k.
FromRatio(p, q) ==
    LET steps == 9
        step[k \in 0..steps] ==
            IF k = 0 THEN [r |-> p % q, limbs |-> << >>]
            ELSE LET prev == step[k - 1]
                     v == 1024 * prev.r
                 IN  [r |-> v % q, limbs |-> Append(prev.limbs, v \div q)]
        last == step[steps]
        int == IF p \div q = 0 THEN << >> ELSE NatBits(p \div q)
    IN  FRound(int \o Unlimbs(last.limbs) \o << IF last.r = 0 THEN 0 ELSE 1 >>,
               -(10 * steps + 1))

\* x + y on doubles: the exact sum, rounded.
FAdd(x, y) ==
    IF x.m = << >> THEN y
    ELSE IF y.m = << >> THEN x
    ELSE LET e == IF x.e < y.e THEN x.e ELSE y.e
             a == Limbs(x.m \o Zeros(x.e - e))
             b == Limbs(y.m \o Zeros(y.e - e))
             n == IF Len(a) > Len(b) THEN Len(a) ELSE Len(b)
             pa == Zeros(n - Len(a)) \o a
             pb == Zeros(n - Len(b)) \o b
             add[k \in 0..n] ==
                 IF k = 0 THEN [c |-> 0, limbs |-> << >>]
                 ELSE LET prev == add[k - 1]
                          v == pa[n - k + 1] + pb[n - k + 1] + prev.c
                      IN  [c |-> v \div 1024, limbs |-> << v % 1024 >> \o prev.limbs]
             last == add[n]
         IN  FRound(<< last.c >> \o Unlimbs(last.limbs), e)

\* x / float(n) for a double x and an integer n, 0 < n < 2^20: long division of
\* the significand followed by 37 zero bits, a last bit recording whether a
\* remainder is left, rounded.
FDivInt(x, n) ==
    IF x.m = << >> THEN FZero
    ELSE LET extra == 37
             num == Limbs(x.m \o Zeros(extra))
             step[k \in 0..Len(num)] ==
                 IF k = 0 THEN [r |-> 0, limbs |-> << >>]
                 ELSE LET prev == step[k - 1]
                          v == 1024 * prev.r + num[k]
                      IN  [r |-> v % n, limbs |-> Append(prev.limbs, v \div n)]
             last == step[Len(num)]
         IN  FRound(Unlimbs(last.limbs) \o << IF last.r = 0 THEN 0 ELSE 1 >>,
                    x.e - extra - 1)

\* sum(xs) of a list of doubles: 0 + xs[1] + xs[2] + ..., added left to right,
\* each addition rounded (as CPython 3.11 and earlier add; later versions
\* compensate the rounding errors of the additions).
FSum(xs) ==
    LET total[j \in 0..Len(xs)] == IF j = 0 THEN FZero ELSE FAdd(total[j - 1], xs[j])
    IN  total[Len(xs)]

\* The double x in units of 10^-k (k <= 6, x * 10^k < 2^30), as round(x, k) and
\* "{:.kf}".format(x) give it: the exact value of x times 10^k, rounded to the
\* nearest integer, ties to even.
FRoundDec(x, k) ==
    IF x.m = << >> THEN 0
    ELSE LET c == Pow10(k)
             limbs == Limbs(x.m)
             n == Len(limbs)
             mul[j \in 0..n] ==
                 IF j = 0 THEN [c |-> 0, limbs |-> << >>]
                 ELSE LET prev == mul[j - 1]
                          v == limbs[n - j + 1] * c + prev.c
                      IN  [c |-> v \div 1024, limbs |-> << v % 1024 >> \o prev.limbs]
             last == mul[n]
             prod == Strip((IF last.c = 0 THEN << >> ELSE NatBits(last.c))
                           \o Unlimbs(last.limbs))
         IN  IF x.e >= 0 THEN BitsNat(prod \o Zeros(x.e))
             ELSE LET drop == -x.e
                      padded == Zeros(drop + 1 - Len(prod)) \o prod
                      len == Len(padded)
                      int == BitsNat(SubSeq(padded, 1, len - drop))
                      sticky == \E i \in (len - drop + 2)..len : padded[i] = 1
                  IN  IF padded[len - drop + 1] = 1 /\ (sticky \/ int % 2 = 1)
                      THEN int + 1 ELSE int

\* round(n / d, k) and "{:.kf}".format(n / d) for integers n >= 0, d > 0, in
\* units of 10^-k.  The double n / d is within 2^-53 of the exact quotient
\* (relatively), far closer than a quotient of small integers can come to a
\* rounding boundary without lying on it; so unless the exact quotient is a tie
\* the result is the exact quotient's rounding, and on a tie the double decides.
round_quotient(n, d, k) ==
    IF IsTie(Pow10(k) * n, d) THEN FRoundDec(FromRatio(n, d), k)
    ELSE RoundHalfEven(Pow10(k) * n, d)

\* "{:.kf}".format(sum(vals) / len(vals)) in units of 10^-k, for a non-empty
\* list of doubles given in units of 1 / unit (the double nearest to
\* vals[i] / unit each), unit a multiple of 10^k.  As for round_quotient, the
\* float sum and quotient are carried out when the exact average is a tie.
format_average(vals, unit, k) ==
    LET d == (unit \div Pow10(k)) * Len(vals)
    IN  IF IsTie(SumSeq(vals), d)
        THEN FRoundDec(FDivInt(FSum([i \in DOMAIN vals |-> FromRatio(vals[i], unit)]),
                               Len(vals)), k)
        ELSE RoundHalfEven(SumSeq(vals), d)

(***************************************************************************)
(* Pipeline A: the toy corpus and the questions.                           *)
(***************************************************************************)
CORPUS ==
    << [id |-> Doc1Id, title |-> Doc1Title, text |-> Doc1Text],
       [id |-> Doc2Id, title |-> Doc2Title, text |-> Doc2Text],
       [id |-> Doc3Id, title |-> Doc3Title, text |-> Doc3Text] >>

QUESTIONS ==
    << [id |-> Q1Id, question |-> Q1Question, expected |-> Q1Expected],
       [id |-> Q2Id, question |-> Q2Question, expected |-> Q2Expected],
       [id |-> Q3Id, question |-> Q3Question, expected |-> Q3Expected] >>

(***************************************************************************)
(* retrieve.  The source reads the module-level CORPUS; here the corpus is *)
(* a parameter, so that the rule can be examined on other corpora too.     *)
(***************************************************************************)
\* len(q_tokens & d_tokens) for one document.
doc_score(question, doc) ==
    Cardinality(ToSet(tokenize(question))
                \cap ToSet(tokenize(doc.text \o << SP >> \o doc.title)))

\* The list "scored" after the loop: (score, doc) in corpus order.
scored(question, corpus) ==
    AsTuple([i \in DOMAIN corpus |-> << doc_score(question, corpus[i]), corpus[i] >>])

\* A faulty variant of insert_desc: an entry goes before the entries of equal score.
insert_desc_unstable(sorted, x) ==
    LET p == Cardinality({i \in DOMAIN sorted : sorted[i][1] > x[1]})
    IN  SubSeq(sorted, 1, p) \o << x >> \o SubSeq(sorted, p + 1, Len(sorted))

\* One step of a stable sort by descending score: x goes after every entry whose
\* score is at least its own.
insert_desc(sorted, x) ==
    LET p == Cardinality({i \in DOMAIN sorted : sorted[i][1] >= x[1]})
    IN  SubSeq(sorted, 1, p) \o << x >> \o SubSeq(sorted, p + 1, Len(sorted))

\* list.sort(key=lambda x: x[0], reverse=True): stable, by descending score.
sort_desc(s) ==
    LET sorted[k \in 0..Len(s)] ==
            IF k = 0 THEN << >> ELSE insert_desc(sorted[k - 1], s[k])
    IN  sorted[Len(s)]

retrieve(question, corpus) == sort_desc(scored(question, corpus))[1][2]

(***************************************************************************)
(* answer_question.                                                        *)
(***************************************************************************)
\* text.split(".")[0]: the text before its first period, all of it if it has none.
split0(text) ==
    LET dots == {i \in DOMAIN text : text[i] = DOT}
    IN  IF dots = {} THEN text
        ELSE SubSeq(text, 1, (CHOOSE i \in dots : \A j \in dots : i <= j) - 1)

\* A faulty variant of answer_question: the agentic-rag rule is tried first.
answer_question_reordered(question, doc) ==
    LET q == lower(question)
    IN  IF In(KwAgenticRag, q) THEN AnsAgenticRag
        ELSE IF In(KwGroundedness, q) THEN AnsGroundedness
        ELSE IF In(KwReduceInferenceCost, q) \/ In(KwReduceCost, q) THEN AnsReduceCost
        ELSE split0(doc.text) \o << DOT >>

\* A faulty variant of answer_question: the fallback adds no period.
answer_question_noperiod(question, doc) ==
    LET q == lower(question)
    IN  IF In(KwGroundedness, q) THEN AnsGroundedness
        ELSE IF In(KwReduceInferenceCost, q) \/ In(KwReduceCost, q) THEN AnsReduceCost
        ELSE IF In(KwAgenticRag, q) THEN AnsAgenticRag
        ELSE split0(doc.text)

answer_question(question, doc) ==
    LET q == lower(question)
    IN  IF In(KwGroundedness, q) THEN AnsGroundedness
        ELSE IF In(KwReduceInferenceCost, q) \/ In(KwReduceInferenceCost, q)
                \/ In(KwReduceCost, q) THEN AnsReduceCost
        ELSE IF In(KwAgenticRag, q) THEN AnsAgenticRag
        ELSE split0(doc.text) \o << DOT >>

(***************************************************************************)
(* compute_groundedness.                                                   *)
(***************************************************************************)
\* sum(1 for t in tokens if t in members)
count_in(tokens, members) ==
    SumSeq([i \in DOMAIN tokens |-> IF tokens[i] \in members THEN 1 ELSE 0])

\* A faulty variant of compute_groundedness: a repeated answer token counts once.
compute_groundedness_distinct(answer, context) ==
    LET ans_tokens == tokenize(answer)
        ctx_tokens == ToSet(tokenize(context))
    IN  IF ans_tokens = << >> THEN Div(0, 1)
        ELSE Div(Cardinality(ToSet(ans_tokens) \cap ctx_tokens), Len(ans_tokens))

\* The returned float as an exact fraction; 0.0 is 0/1.
compute_groundedness(answer, context) ==
    LET ans_tokens == tokenize(answer)
        ctx_tokens == ToSet(tokenize(context))
    IN  IF ans_tokens = << >> THEN Div(0, 1)
        ELSE Div(count_in(ans_tokens, ctx_tokens), Len(ans_tokens))

(***************************************************************************)
(* simulate_latency_and_cost.  rand is the value random.randint(0, 20)     *)
(* returned; the result is (latency in ms, cost in millionths of a USD).   *)
(***************************************************************************)
\* A faulty variant of simulate_latency_and_cost: no floor of one token.
simulate_latency_and_cost_nofloor(answer, rand) ==
    LET tokens == Len(tokenize(answer))
    IN  << BaseLatency + MsPerToken * tokens + rand, MicroUsdPerToken * tokens >>

simulate_latency_and_cost(answer, rand) ==
    LET n == Len(tokenize(answer))
        tokens == IF n > 1 THEN n ELSE 1
    IN  << BaseLatency + MsPerToken * tokens + rand, MicroUsdPerToken * tokens >>

(***************************************************************************)
(* evaluate (Pipeline A).  The loop body's first three statements depend   *)
(* on the question alone; loop_values holds them for each entry of         *)
(* QUESTIONS.  eval_result is the dictionary the body appends for the      *)
(* i-th question when random.randint returns rand.                         *)
(***************************************************************************)
loop_values ==
    AsTuple([i \in DOMAIN QUESTIONS |->
        LET doc == retrieve(QUESTIONS[i].question, CORPUS)
            ans == answer_question(QUESTIONS[i].question, doc)
        IN  [doc |-> doc, ans |-> ans, g |-> compute_groundedness(ans, doc.text)]])

eval_result(i, rand) ==
    LET v == loop_values[i]
        lc == simulate_latency_and_cost(v.ans, rand)
    IN  [query_id |-> QUESTIONS[i].id,
         question |-> QUESTIONS[i].question,
         doc_id |-> v.doc.id,
         answer |-> v.ans,
         groundedness |-> round_quotient(v.g.num, v.g.den, 3),   \* round(g, 3)
         latency_ms |-> lc[1],
         cost_usd |-> lc[2]]

\* A faulty variant of evaluate_step: the new result is put first.
evaluate_step_prepend(res, rand) == << eval_result(Len(res) + 1, rand) >> \o res

\* results.append({...}) for the next question of the loop.
evaluate_step(res, rand) == Append(res, eval_result(Len(res) + 1, rand))

(***************************************************************************)
(* write_report.                                                           *)
(***************************************************************************)
\* The UTC calendar date of day k of the model's clock: 2026-10-31, then
\* 2026-11-01, 2026-11-02, ...
UtcDate(k) == IF k = 0 THEN << 2026, 10, 31 >> ELSE << 2026, 11, k >>

\* datetime.utcnow().strftime("%Y-%m-%d")
strftime(d) == Digits(d[1], 4) \o << 45 >> \o Digits(d[2], 2) \o << 45 >> \o Digits(d[3], 2)

\* The file name f"{date_str}-ragops-eval.md".
report_name(ds) == ds \o ReportSuffix

\* An absolute pathlib.Path is the sequence of its components below the root
\* "/": Path("/srv/repo") is << "srv", "repo" >>, Path("/") is << >>.
\* Path.parents[i] of a path with more than i components.
parents(p, i) == SubSeq(p, 1, Len(p) - 1 - i)

\* p / name
joinpath(p, name) == Append(p, name)

\* str(p)
path_str(p) ==
    IF p = << >> THEN << 47 >> ELSE Join([i \in DOMAIN p |-> << 47 >> \o p[i]], << >>)

\* One table row.
row_line(r) ==
    << 124 >> \o r.query_id \o << 124 >> \o r.doc_id \o << 124 >> \o Fixed(r.groundedness, 3)
    \o << 124 >> \o Digits(r.latency_ms, 1) \o << 124 >> \o Fixed(r.cost_usd, 6) \o << 124 >>

\* The values r[field] for r in res, in the field's unit.
field_values(res, field) == AsTuple([i \in DOMAIN res |-> res[i][field]])

\* sum(r[field] for r in res) / len(res) as an exact quotient in the field's
\* unit: what tells whether the division raises.
average(res, field) == Div(SumSeq(field_values(res, field)), Len(res))

\* The list "lines" write_report builds (only reached when the averages exist).
report_lines(res, ds) ==
    LET avg_g == format_average(field_values(res, "groundedness"), 1000, 3)
        avg_lat == round_quotient(SumSeq(field_values(res, "latency_ms")), Len(res), 1)
        avg_cost == format_average(field_values(res, "cost_usd"), 1000000, 6)
    IN  << TitlePrefix \o ds,
           << >>,
           SummaryHeader,
           AvgGPrefix \o Fixed(avg_g, 3) \o BoldSuffix,
           AvgLatPrefix \o Fixed(avg_lat, 1) \o BoldSuffix,
           AvgCostPrefix \o Fixed(avg_cost, 6) \o BoldSuffix,
           << >>,
           DetailHeader,
           TableHeader,
           TableRule >>
        \o [i \in DOMAIN res |-> row_line(res[i])]
        \o << << >> >>

\* The text written: "\n".join(lines).
report_text(res, ds) == Join(report_lines(res, ds), << LF >>)

\* A faulty variant of open_w_write: the file is opened for appending.
open_a_write(files, name, text) ==
    IF name \in DOMAIN files THEN (name :> (files[name] \o text)) @@ files
    ELSE (name :> text) @@ files

\* open(path, "w") + write: the file holds exactly the text written.
open_w_write(files, name, text) == (name :> text) @@ files

\* A faulty variant of write_report: the directory is made before the averages.
write_report_mkdir_first(res, dir, fs0, day) ==
    LET ds == strftime(UtcDate(day))
    IN  IF DivRaises(average(res, "groundedness"))
        THEN [raised |-> "ZeroDivisionError", fs |-> [fs0 EXCEPT !.dir = TRUE],
              printed |-> << >>, date_str |-> ds]
        ELSE [raised |-> "none",
              fs |-> [dir |-> TRUE,
                      files |-> open_w_write(fs0.files, report_name(ds), report_text(res, ds))],
              printed |-> << PrintPrefix \o path_str(joinpath(dir, report_name(ds))) >>,
              date_str |-> ds]

\* write_report(results, report_dir) called on day "day" with the filesystem fs0:
\* the exception it ends with, the filesystem it leaves, the lines it prints and
\* its local date_str.  The first average (line 154) raises ZeroDivisionError for
\* an empty list, before mkdir and open are reached.
write_report(res, dir, fs0, day) ==
    LET ds == strftime(UtcDate(day))
    IN  IF DivRaises(average(res, "groundedness"))
        THEN [raised |-> "ZeroDivisionError", fs |-> fs0, printed |-> << >>, date_str |-> ds]
        ELSE [raised |-> "none",
              fs |-> [dir |-> TRUE,
                      files |-> open_w_write(fs0.files, report_name(ds), report_text(res, ds))],
              printed |-> << PrintPrefix \o path_str(joinpath(dir, report_name(ds))) >>,
              date_str |-> ds]

(***************************************************************************)
(* Pipeline B: rag_evaluation_demo.evaluate, here evaluate_rag.            *)
(***************************************************************************)
DATASET ==
    << [query |-> Item1Query, expected_answer |-> Item1Expected,
        retrieved_contexts |-> Item1Contexts,
        predicted_answer |-> Item1Predicted],
       [query |-> Item2Query, expected_answer |-> Item2Expected,
        retrieved_contexts |-> Item2Contexts,
        predicted_answer |-> Item2Predicted],
       [query |-> Item3Query, expected_answer |-> Item3Expected,
        retrieved_contexts |-> Item3Contexts,
        predicted_answer |-> Item3Predicted],
       [query |-> Item4Query, expected_answer |-> Item4Expected,
        retrieved_contexts |-> Item4Contexts,
        predicted_answer |-> Item4Predicted],
       [query |-> Item5Query, expected_answer |-> Item5Expected,
        retrieved_contexts |-> Item5Contexts,
        predicted_answer |-> Item5Predicted] >>

\* A faulty variant of relevant_contexts: the expected answer is not lowercased.
relevant_contexts_nolower(item) ==
    LET expected == item.expected_answer
        contexts == item.retrieved_contexts
    IN  Cardinality({i \in DOMAIN contexts : In(expected, lower(contexts[i]))})

\* sum(1 for c in contexts if expected in c.lower())
relevant_contexts(item) ==
    LET expected == lower(item.expected_answer)
        contexts == item.retrieved_contexts
    IN  Cardinality({i \in DOMAIN contexts : In(expected, lower(contexts[i]))})

\* min(relevant_contexts / 1.0, 1.0)
item_recall(item) == IF relevant_contexts(item) < 1 THEN relevant_contexts(item) ELSE 1

\* A faulty variant of item_precision: no guard for an empty context list.
item_precision_unguarded(item) ==
    Div(relevant_contexts(item), Len(item.retrieved_contexts))

\* relevant_contexts / len(contexts) if contexts else 0.0
item_precision(item) ==
    IF item.retrieved_contexts # << >>
    THEN Div(relevant_contexts(item), Len(item.retrieved_contexts))
    ELSE Div(0, 1)

\* 1.0 if expected in predicted else 0.0
item_answer_rel(item) ==
    IF In(lower(item.expected_answer), lower(item.predicted_answer)) THEN 1 ELSE 0

\* 1.0 if any(predicted in c.lower() or c.lower() in predicted for c in contexts) else 0.0
item_faithfulness(item) ==
    LET predicted == lower(item.predicted_answer)
        contexts == item.retrieved_contexts
    IN  IF \E i \in DOMAIN contexts :
              In(predicted, lower(contexts[i])) \/ In(lower(contexts[i]), predicted)
        THEN 1 ELSE 0

\* The exact sum of a list of quotients.
SumDiv(qs) ==
    LET total[k \in 0..Len(qs)] ==
            IF k = 0 THEN Div(0, 1)
            ELSE LET prev == total[k - 1]
                 IN  Div(prev.num * qs[k].den + qs[k].num * prev.den, prev.den * qs[k].den)
    IN  total[Len(qs)]

\* round(total / n, k) in units of 10^-k, where total is the float the loop
\* builds by total += q for the quotients qs, 0.0 at the start.  As for
\* round_quotient, the float additions and the division are carried out when the
\* exact value is a tie.
round_total(qs, n, k) ==
    CHOOSE v \in
        { IF IsTie(Pow10(k) * t.num, t.den * n)
          THEN FRoundDec(FDivInt(FSum([i \in DOMAIN qs |-> FromRatio(qs[i].num, qs[i].den)]),
                                 n), k)
          ELSE RoundHalfEven(Pow10(k) * t.num, t.den * n) : t \in {SumDiv(qs)} } : TRUE

\* n = float(len(dataset)) or 1.0
dataset_count(dataset) == IF Len(dataset) = 0 THEN 1 ELSE Len(dataset)

\* The returned dictionary, each metric in hundredths (round(x, 2)); "raised" is
\* the exception the call ends with instead, if a division by zero is reached.
evaluate_rag(dataset) ==
    LET precisions == AsTuple([i \in DOMAIN dataset |-> item_precision(dataset[i])])
        total_recall == SumSeq([i \in DOMAIN dataset |-> item_recall(dataset[i])])
        total_answer_rel == SumSeq([i \in DOMAIN dataset |-> item_answer_rel(dataset[i])])
        total_faithfulness ==
            SumSeq([i \in DOMAIN dataset |-> item_faithfulness(dataset[i])])
        n == dataset_count(dataset)
    IN  IF (\E i \in DOMAIN precisions : DivRaises(precisions[i])) \/ DivRaises(Div(0, n))
        THEN [raised |-> "ZeroDivisionError"]
        ELSE [raised |-> "none",
              contextual_recall |-> round_quotient(total_recall, n, 2),
              contextual_precision |-> round_total(precisions, n, 2),
              answer_relevancy |-> round_quotient(total_answer_rel, n, 2),
              faithfulness |-> round_quotient(total_faithfulness, n, 2)]

(***************************************************************************)
(* Pipeline B: rag_evaluation_demo.main.                                   *)
(***************************************************************************)
\* The values of the dictionary evaluate returns, in the order of its keys.
metric_values(metrics) ==
    << metrics.contextual_recall, metrics.contextual_precision, metrics.answer_relevancy,
       metrics.faithfulness >>

\* str(x) of the float x = round(..., 2), v its value in hundredths: the shortest
\* decimal that reads back as x, with at least one digit after the point.
float_str(v) ==
    Digits(v \div 100, 1) \o << DOT >>
    \o (IF v % 10 = 0 THEN Digits((v % 100) \div 10, 1) ELSE Digits(v % 100, 2))

\* The lines main() prints for the dictionary evaluate(DATASET) returned:
\* "Evaluation metrics:", then "<name>: <value>" per metric.
main_printed(metrics) ==
    << MetricsHeader >>
    \o [i \in DOMAIN MetricNames |->
           MetricNames[i] \o << 58, SP >> \o float_str(metric_values(metrics)[i])]
(***************************************************************************)
(* Inputs of the direct calls.                                             *)
(***************************************************************************)
\* "a", "B", " ", "."
Alphabet == {97, 66, 32, 46}

\* "a", "B", " "
QAlphabet == {97, 66, 32}

GenStrings == Strings(Alphabet, MaxLen)

\* "a b c"
StrABC == << 97, 32, 98, 32, 99 >>

\* Small documents: tokens {a, b}; {a}; {b} with an empty text; {ab, c} with an
\* empty title and no period in the text.
DocPool ==
    { [id |-> << 100, 49 >>, title |-> << 97 >>, text |-> << 66, 46 >>],
      [id |-> << 100, 50 >>, title |-> << 97 >>, text |-> << 97 >>],
      [id |-> << 100, 51 >>, title |-> << 66 >>, text |-> << >>],
      [id |-> << 100, 52 >>, title |-> << >>, text |-> << 97, 98, 32, 99 >>] }

GenCorpora == UNION {[1..k -> DocPool] : k \in 1..MaxDocs}

RetrieveQuestions ==
    Strings(QAlphabet, MaxQLen) \cup {QUESTIONS[i].question : i \in DOMAIN QUESTIONS}

RetrieveCorpora == GenCorpora \cup {CORPUS}

\* Fragments a generated question is joined from (with " " between them):
\* "What is Groundedness", "reduce", "cost", "Reduce Inference Cost",
\* "AGENTIC rag", "hello."
Fragments ==
    { << 87, 104, 97, 116, 32, 105, 115, 32, 71, 114, 111, 117, 110, 100, 101, 100, 110, 101,
         115, 115 >>,
      << 114, 101, 100, 117, 99, 101 >>,
      << 99, 111, 115, 116 >>,
      << 82, 101, 100, 117, 99, 101, 32, 73, 110, 102, 101, 114, 101, 110, 99, 101, 32, 67, 111,
         115, 116 >>,
      << 65, 71, 69, 78, 84, 73, 67, 32, 114, 97, 103 >>,
      << 104, 101, 108, 108, 111, 46 >> }

AnswerQuestions ==
    {Join(fs_, << SP >>) : fs_ \in UNION {[1..k -> Fragments] : k \in 0..MaxFrags}}
    \cup {QUESTIONS[i].question : i \in DOMAIN QUESTIONS}

AnswerDocs == DocPool \cup ToSet(CORPUS)

GroundednessAnswers == GenStrings \cup {AnsGroundedness, AnsReduceCost, AnsAgenticRag}

GroundednessContexts ==
    Strings(Alphabet, MaxLen - 1) \cup {CORPUS[i].text : i \in DOMAIN CORPUS}

SimulateAnswers == GenStrings \cup {StrABC, AnsGroundedness}

\* Context lists of up to MaxCtx entries: some "A b" followed by some "ab".
ContextLists ==
    UNION { { AsTuple([k \in 1..n |-> IF k <= i THEN << 65, 32, 98 >> ELSE << 97, 98 >>]) :
                i \in 0..n } : n \in 0..MaxCtx }

\* Pipeline B items: expected answers "a", "Ab"; contexts "A b", "ab";
\* predicted answers "AB.", "b".
ItemPool ==
    { [query |-> << >>, expected_answer |-> e, retrieved_contexts |-> cs,
       predicted_answer |-> p] :
        e \in { << 97 >>, << 65, 98 >> }, cs \in ContextLists,
        p \in { << 65, 66, 46 >>, << 98 >> } }

\* Two items with four and five contexts, one relevant each: the average
\* precision (1/4 + 1/5) / 2 = 0.225 lies halfway between two hundredths.
TieDataset ==
    << [query |-> << >>, expected_answer |-> << 97 >>,
        retrieved_contexts |-> << << 97, 98 >>, << 66 >>, << 66 >>, << 66 >> >>,
        predicted_answer |-> << 98 >>],
       [query |-> << >>, expected_answer |-> << 97 >>,
        retrieved_contexts |-> << << 66 >>, << 65, 32, 98 >>, << 66 >>, << 66 >>, << 66 >> >>,
        predicted_answer |-> << 98 >>] >>

Datasets == UNION {[1..k -> ItemPool] : k \in 0..MaxItems} \cup {DATASET, TieDataset}

\* Results lists handed to write_report directly: built from two results of the
\* evaluation, the empty list included.
ResultPool == {eval_result(1, 0), eval_result(2, RandMax)}

\* Two results with groundedness 0.818 and 0.819: the average 0.8185 lies
\* halfway between two thousandths.
TieResults == << eval_result(1, 0), [eval_result(2, 0) EXCEPT !.groundedness = 819] >>

ResultLists == UNION {[1..k -> ResultPool] : k \in 0..MaxResults} \cup {TieResults}

\* The values random.randint(0, 20) returns.
Draws == 0..RandMax

\* The project roots main() may run under: "/" and "/srv/repo".
ProjectRoots == { << >>, << << 115, 114, 118 >>, << 114, 101, 112, 111 >> >> }

\* Path(__file__).resolve(): the script lies in the directory code/ of the project.
ScriptPaths == { root \o << CodeDirName, ScriptName >> : root \in ProjectRoots }

\* The report_dir argument of the direct calls of write_report: "/srv/repo/reports".
CallReportDir == << << 115, 114, 118 >>, << 114, 101, 112, 111 >>, ReportDirName >>

\* The filesystem main() may find: no report directory yet, or the directory
\* with the report an earlier run wrote on day 0.
InitialFilesystems ==
    { [dir |-> FALSE, files |-> << >>],
      write_report(<< eval_result(1, 0), eval_result(2, RandMax), eval_result(3, 0) >>,
                   CallReportDir, [dir |-> FALSE, files |-> << >>], 0).fs }

(***************************************************************************)
(* The state machine.                                                      *)
(***************************************************************************)
Init ==
    /\ pc = "idle"
    /\ report_dir = << >>
    /\ results = << >>
    /\ clock = 0
    /\ fs = [dir |-> FALSE, files |-> << >>]
    /\ console = << >>
    /\ raised = "none"
    /\ date_str = << >>
    /\ runs = 0
    /\ call = [op |-> "none"]
    /\ ret = << >>

\* The UTC date changes at midnight, while the script has not ended.
Tick ==
    /\ pc # "done"
    /\ clock < MaxDay
    /\ clock' = clock + 1
    /\ UNCHANGED << pc, report_dir, results, fs, console, raised, date_str, runs, call, ret >>

\* The state a run of the script starts in.
InitMain ==
    /\ pc = "idle"
    /\ report_dir = << >>
    /\ results = << >>
    /\ clock = 0
    /\ fs \in InitialFilesystems
    /\ console = << >>
    /\ raised = "none"
    /\ date_str = << >>
    /\ runs = 0
    /\ call = [op |-> "none"]
    /\ ret = << >>

\* main() starts, once per run of the script: report_dir is the directory
\* "reports" beside the script's directory, and evaluate() sets results = [].
Start ==
    /\ pc = "idle"
    /\ runs = 0
    /\ runs' = runs + 1
    /\ pc' = "evaluate"
    /\ \E script \in ScriptPaths :
          \E project_root \in {parents(script, 1)} :
              report_dir' = joinpath(project_root, ReportDirName)
    /\ results' = << >>
    /\ UNCHANGED << clock, fs, console, raised, date_str, call, ret >>

\* One iteration of evaluate()'s loop; after the last question evaluate() returns.
EvalQuestion ==
    /\ pc = "evaluate"
    /\ \E rand \in Draws :
          /\ results' = evaluate_step(results, rand)
          /\ pc' = IF Len(results') = Len(QUESTIONS) THEN "write_report" ELSE "evaluate"
    /\ UNCHANGED << report_dir, clock, fs, console, raised, date_str, runs, call, ret >>

\* main() calls write_report(results, report_dir) and returns: the script ends.
WriteReport ==
    /\ pc = "write_report"
    /\ \E w \in {write_report(results, report_dir, fs, clock)} :
           /\ fs' = w.fs
           /\ console' = console \o w.printed
           /\ raised' = w.raised
           /\ date_str' = w.date_str
    /\ pc' = "done"
    /\ UNCHANGED << report_dir, results, clock, runs, call, ret >>

Next == Start \/ EvalQuestion \/ WriteReport \/ Tick

\* Pipeline A as one run of the script executes main(), on a clock that advances.
Spec == InitMain /\ [][Next]_vars

\* write_report called directly with a results list of the caller's choice.
CallWriteReport ==
    /\ runs < MaxRuns
    /\ \E rs \in ResultLists :
          \E w \in {write_report(rs, CallReportDir, fs, clock)} :
              /\ results' = rs
              /\ call' = [op |-> "write_report", results |-> rs]
              /\ fs' = w.fs
              /\ console' = console \o w.printed
              /\ raised' = w.raised
              /\ date_str' = w.date_str
    /\ runs' = runs + 1
    /\ UNCHANGED << pc, report_dir, clock, ret >>

NextReport == CallWriteReport \/ Tick

SpecReport == Init /\ [][NextReport]_vars

\* The pure functions, each called once with arguments of the caller's choice.
CallRetrieve ==
    /\ call.op = "none"
    /\ \E q \in RetrieveQuestions, c \in RetrieveCorpora :
          /\ call' = [op |-> "retrieve", question |-> q, corpus |-> c]
          /\ ret' = retrieve(q, c)
    /\ UNCHANGED << pc, report_dir, results, clock, fs, console, raised, date_str, runs >>

CallAnswerQuestion ==
    /\ call.op = "none"
    /\ \E q \in AnswerQuestions, d \in AnswerDocs :
          /\ call' = [op |-> "answer_question", question |-> q, doc |-> d]
          /\ ret' = answer_question(q, d)
    /\ UNCHANGED << pc, report_dir, results, clock, fs, console, raised, date_str, runs >>

CallComputeGroundedness ==
    /\ call.op = "none"
    /\ \E a \in GroundednessAnswers, c \in GroundednessContexts :
          /\ call' = [op |-> "compute_groundedness", answer |-> a, context |-> c]
          /\ ret' = compute_groundedness(a, c)
    /\ UNCHANGED << pc, report_dir, results, clock, fs, console, raised, date_str, runs >>

CallSimulate ==
    /\ call.op = "none"
    /\ \E a \in SimulateAnswers, rand \in 0..RandMax :
          /\ call' = [op |-> "simulate_latency_and_cost", answer |-> a, rand |-> rand]
          /\ ret' = simulate_latency_and_cost(a, rand)
    /\ UNCHANGED << pc, report_dir, results, clock, fs, console, raised, date_str, runs >>

CallEvaluateRag ==
    /\ call.op = "none"
    /\ \E ds \in Datasets :
          /\ call' = [op |-> "evaluate_rag", dataset |-> ds]
          /\ ret' = evaluate_rag(ds)
    /\ UNCHANGED << pc, report_dir, results, clock, fs, console, raised, date_str, runs >>

\* rag_evaluation_demo.main(): evaluate(DATASET), then the metrics are printed.
MainRag ==
    /\ call.op = "none"
    /\ \E metrics \in {evaluate_rag(DATASET)} :
          /\ call' = [op |-> "evaluate_rag", dataset |-> DATASET]
          /\ ret' = metrics
          /\ console' = console \o main_printed(metrics)
    /\ UNCHANGED << pc, report_dir, results, clock, fs, raised, date_str, runs >>

NextCalls ==
    \/ CallRetrieve
    \/ CallAnswerQuestion
    \/ CallComputeGroundedness
    \/ CallSimulate
    \/ CallEvaluateRag
    \/ MainRag

SpecCalls == Init /\ [][NextCalls]_vars

(***************************************************************************)
(* Helpers of the properties.                                              *)
(***************************************************************************)
TokenSet(text) == ToSet(tokenize(text))

IsPrefix(p, s) == Len(p) <= Len(s) /\ SubSeq(s, 1, Len(p)) = p

\* The lines of a text: the pieces between its line feeds.
Lines(text) ==
    LET breaks == {i \in DOMAIN text : text[i] = LF}
        nth(k) == IF k = 0 THEN 0
                  ELSE IF k > Cardinality(breaks) THEN Len(text) + 1
                  ELSE CHOOSE b \in breaks : Cardinality({c \in breaks : c < b}) = k - 1
    IN  AsTuple([k \in 1..(Cardinality(breaks) + 1) |->
                    SubSeq(text, nth(k - 1) + 1, nth(k) - 1)])

\* The number of lines write_report puts before the first table row.
HeaderLines == 10

\* The table rows of a report text: the lines after the header, without the
\* empty piece after the final line feed.
TableRows(text) ==
    LET ls == Lines(text)
    IN  SubSeq(ls, HeaderLines + 1, Len(ls) - 1)

\* The document retrieve returns for each entry of QUESTIONS.
RetrievedIds ==
    AsTuple([k \in DOMAIN QUESTIONS |-> retrieve(QUESTIONS[k].question, CORPUS).id])

\* The files of the report directory whose name starts with the date ds.
FilesOfDate(ds) == {n \in DOMAIN fs.files : IsPrefix(ds, n)}

(***************************************************************************)
(* C1.  evaluate(DATASET) of Pipeline B.                                   *)
(***************************************************************************)
\* Items of DATASET whose predicted answer and some context contain one another.
FaithfulItems ==
    {i \in DOMAIN DATASET :
        \E k \in DOMAIN DATASET[i].retrieved_contexts :
            LET p == lower(DATASET[i].predicted_answer)
                c == lower(DATASET[i].retrieved_contexts[k])
            IN  In(p, c) \/ In(c, p)}

\* C1 as stated: evaluate(DATASET) returns contextual_recall = 1.0,
\* answer_relevancy = 1.0 and faithfulness = 1.0.
C1_Original ==
    (call.op = "evaluate_rag" /\ call.dataset = DATASET) =>
        /\ ret.raised = "none"
        /\ ret.contextual_recall = 100
        /\ ret.answer_relevancy = 100
        /\ ret.faithfulness = 100

\* C1 as amended: evaluate(DATASET) returns contextual_recall = 1.0,
\* contextual_precision = 0.33, answer_relevancy = 1.0 and faithfulness = 0.6:
\* only items 1, 3 and 5 have a predicted answer that contains, or is contained
\* in, one of their contexts.
C1_DatasetMetrics ==
    (call.op = "evaluate_rag" /\ call.dataset = DATASET) =>
        /\ ret.raised = "none"
        /\ ret.contextual_recall = 100
        /\ ret.contextual_precision = 33
        /\ ret.answer_relevancy = 100
        /\ ret.faithfulness = 60
        /\ FaithfulItems = {1, 3, 5}
        /\ ret.faithfulness * Len(DATASET) = 100 * Cardinality(FaithfulItems)

C1_Witness ==
    /\ call.op = "evaluate_rag"
    /\ call.dataset = DATASET
    /\ ret.raised = "none"
    /\ ret.faithfulness = 60

(***************************************************************************)
(* C2.  retrieve returns the first document of maximal overlap.            *)
(***************************************************************************)
\* The overlap of a question with a document: common members of the question's
\* token set and the token set of the document's title and text.
Overlap(question, doc) ==
    Cardinality(TokenSet(question) \cap (TokenSet(doc.title) \cup TokenSet(doc.text)))

\* C2: for every question and every non-empty corpus, retrieve returns a document
\* whose overlap with the question is maximal over the corpus and that no document
\* of the same overlap precedes in corpus order; for the question of q1 on CORPUS
\* it returns doc1.
C2_RetrieveFirstMaximum ==
    call.op = "retrieve" =>
        LET q == call.question
            corpus == call.corpus
        IN  /\ \E i \in DOMAIN corpus :
                  /\ corpus[i] = ret
                  /\ \A j \in DOMAIN corpus : Overlap(q, corpus[j]) <= Overlap(q, corpus[i])
                  /\ \A j \in 1..(i - 1) : Overlap(q, corpus[j]) < Overlap(q, corpus[i])
            /\ (q = QUESTIONS[1].question /\ corpus = CORPUS) => ret.id = Doc1Id

\* A corpus of two different documents that tie at a positive maximum: the
\* earlier one is returned.
C2_Witness ==
    /\ call.op = "retrieve"
    /\ Len(call.corpus) = 2
    /\ call.corpus[1] # call.corpus[2]
    /\ Overlap(call.question, call.corpus[1]) = Overlap(call.question, call.corpus[2])
    /\ Overlap(call.question, call.corpus[1]) > 0
    /\ ret = call.corpus[1]

(***************************************************************************)
(* C3.  answer_question: the first matching rule decides.                  *)
(***************************************************************************)
Rule1(q) == In(KwGroundedness, lower(q))
Rule2(q) == In(KwReduceInferenceCost, lower(q)) \/ In(KwReduceCost, lower(q))
Rule3(q) == In(KwAgenticRag, lower(q))

\* C3: the rules are tried in the order groundedness, reduce (inference) cost,
\* agentic rag, and the answer is the canned answer of the first rule that
\* matches the lowercased question, whatever the document.
C3_FirstRuleWins ==
    call.op = "answer_question" =>
        LET q == call.question
        IN  /\ Rule1(q) => ret = AnsGroundedness
            /\ (~Rule1(q) /\ Rule2(q)) => ret = AnsReduceCost
            /\ (~Rule1(q) /\ ~Rule2(q) /\ Rule3(q)) => ret = AnsAgenticRag

\* A question that contains both "groundedness" and "agentic rag".
C3_Witness ==
    /\ call.op = "answer_question"
    /\ Rule1(call.question)
    /\ Rule3(call.question)
    /\ ret = AnsGroundedness

(***************************************************************************)
(* C4.  compute_groundedness.                                              *)
(***************************************************************************)
\* C4: 0.0 for an answer without tokens; otherwise the number of answer token
\* occurrences that are in the context's token set, over the number of answer
\* tokens; always within [0, 1].
C4_Groundedness ==
    call.op = "compute_groundedness" =>
        LET toks == tokenize(call.answer)
            ctx == TokenSet(call.context)
        IN  /\ ret.den > 0
            /\ 0 <= ret.num /\ ret.num <= ret.den
            /\ Len(toks) = 0 => ret.num = 0
            /\ Len(toks) > 0 =>
                  /\ ret.num = Cardinality({i \in DOMAIN toks : toks[i] \in ctx})
                  /\ ret.den = Len(toks)

\* An answer that repeats a token of the context: both occurrences count.
C4_Witness ==
    /\ call.op = "compute_groundedness"
    /\ LET toks == tokenize(call.answer)
       IN  /\ Len(toks) = 2
           /\ toks[1] = toks[2]
           /\ toks[1] \in TokenSet(call.context)
    /\ ret.num = 2
    /\ ret.den = 2

(***************************************************************************)
(* C5.  simulate_latency_and_cost.                                         *)
(***************************************************************************)
\* C5: with n = max(1, number of tokens), the latency lies in
\* [50 + 2n, 50 + 2n + 20] for every draw and the cost is n * 0.00001 USD; for
\* "a b c" that is [56, 76] and 0.00003, and for an answer without tokens n = 1.
C5_LatencyAndCost ==
    call.op = "simulate_latency_and_cost" =>
        LET t == Len(tokenize(call.answer))
            n == IF t >= 1 THEN t ELSE 1
        IN  /\ ret[1] >= 50 + 2 * n
            /\ ret[1] <= 50 + 2 * n + 20
            /\ ret[2] = n * 10
            /\ call.answer = StrABC => (ret[1] \in 56..76 /\ ret[2] = 30)
            /\ t = 0 => (ret[1] \in 52..72 /\ ret[2] = 10)

\* "a b c" with the highest draw.
C5_Witness ==
    /\ call.op = "simulate_latency_and_cost"
    /\ call.answer = StrABC
    /\ call.rand = 20
    /\ ret = << 76, 30 >>

(***************************************************************************)
(* C6.  write_report on the same date overwrites the same file.            *)
(***************************************************************************)
\* What C6 promises of the state a write_report call leaves: the call succeeded,
\* the report directory holds exactly one file of the call's date, named
\* <date>-ragops-eval.md, and that file is the report of the call's results and
\* nothing else: the header of that date, then one table row per result.
ReportIsOfLastCall ==
    /\ raised = "none"
    /\ fs.dir
    /\ FilesOfDate(date_str) = {report_name(date_str)}
    /\ LET text == fs.files[report_name(date_str)]
       IN  /\ text = report_text(call.results, date_str)
           /\ Lines(text)[1] = TitlePrefix \o date_str
           /\ Len(Lines(text)) = HeaderLines + Len(call.results) + 1
           /\ Len(TableRows(text)) = Len(call.results)

\* C6 as stated: after any sequence of write_report calls, every call has
\* succeeded and the file of the date is the report of the last call's results.
C6_Original == call.op = "write_report" => ReportIsOfLastCall

\* C6 as amended: after any sequence of write_report calls, each call made with
\* a non-empty results list has succeeded and left exactly one file of its date,
\* holding the report of that call's results only.
C6_OverwriteSameDate ==
    (call.op = "write_report" /\ call.results # << >>) => ReportIsOfLastCall

\* Two successful calls wrote to the same path, the second with a single result:
\* the file has one table row.
C6_Witness ==
    /\ call.op = "write_report"
    /\ Len(call.results) = 1
    /\ Len(console) = 2
    /\ console[1] = console[2]
    /\ raised = "none"
    /\ Len(TableRows(fs.files[report_name(date_str)])) = 1

(***************************************************************************)
(* C7.  Pipeline B's evaluate on empty collections.                        *)
(***************************************************************************)
\* Number of contexts of an item that contain its expected answer, ignoring case.
Relevant(item) ==
    Cardinality({k \in DOMAIN item.retrieved_contexts :
                    In(lower(item.expected_answer), lower(item.retrieved_contexts[k]))})

\* The product of the lengths of the non-empty context lists of a dataset: a
\* common denominator of the items' precisions.
CommonDen(dataset) ==
    LET prod[k \in 0..Len(dataset)] ==
            IF k = 0 THEN 1
            ELSE IF dataset[k].retrieved_contexts = << >> THEN prod[k - 1]
            ELSE prod[k - 1] * Len(dataset[k].retrieved_contexts)
    IN  prod[Len(dataset)]

\* Whether the integer v is the quotient n / d rounded to a nearest integer.
IsRounding(v, n, d) == 2 * (v * d - n) <= d /\ 2 * (n - v * d) <= d

\* C7: evaluate never raises; for the empty dataset all four metrics are 0.0; an
\* item without contexts has precision 0.0, so contextual_precision is the sum of
\* relevant / total over the items that have contexts, divided by the number of
\* items, to two decimals.
C7_NoDivisionByZero ==
    call.op = "evaluate_rag" =>
        \A ds \in {call.dataset} : \A d \in {CommonDen(ds)} :
        \A total \in {SumSeq([i \in DOMAIN ds |->
                                IF ds[i].retrieved_contexts = << >> THEN 0
                                ELSE Relevant(ds[i]) * (d \div Len(ds[i].retrieved_contexts))])} :
            /\ ret.raised = "none"
            /\ ds = << >> =>
                  /\ ret.contextual_recall = 0
                  /\ ret.contextual_precision = 0
                  /\ ret.answer_relevancy = 0
                  /\ ret.faithfulness = 0
            /\ ds # << >> => IsRounding(ret.contextual_precision, 100 * total, d * Len(ds))
            /\ (\A i \in DOMAIN ds : ds[i].retrieved_contexts = << >>) =>
                  ret.contextual_precision = 0

\* A dataset with an item that has no contexts beside one whose contexts are
\* relevant: the call returns, with a positive precision.
C7_Witness ==
    /\ call.op = "evaluate_rag"
    /\ \E i \in DOMAIN call.dataset : call.dataset[i].retrieved_contexts = << >>
    /\ ret.raised = "none"
    /\ ret.contextual_precision > 0

(***************************************************************************)
(* C8.  One result per question, one table row per result, in order.       *)
(***************************************************************************)
\* How a table row of the result of question k starts: |<query id>|<doc id>|
RowStart(k) == << 124 >> \o QUESTIONS[k].id \o << 124 >> \o RetrievedIds[k] \o << 124 >>

\* C8: evaluate() appends one result per entry of QUESTIONS, in order, each
\* carrying the question's id and the id of the document retrieve returns for
\* it; the report main() then writes has one table row per result in that order.
C8_ResultsAndRowsInOrder ==
    /\ Len(results) <= Len(QUESTIONS)
    /\ pc = "evaluate" => Len(results) < Len(QUESTIONS)
    /\ (pc = "write_report" \/ pc = "done") => Len(results) = Len(QUESTIONS)
    /\ \A k \in DOMAIN results :
          /\ results[k].query_id = QUESTIONS[k].id
          /\ results[k].doc_id = RetrievedIds[k]
    /\ pc = "done" =>
          LET rows == TableRows(fs.files[report_name(date_str)])
          IN  /\ Len(rows) = Len(QUESTIONS)
              /\ \A k \in DOMAIN rows : IsPrefix(RowStart(k), rows[k])

\* main() has returned after the draws 10, 4 and 12, and the third row of the
\* report is that of q3 and doc3.
C8_Witness ==
    /\ pc = "done"
    /\ Len(results) = 3
    /\ results[1].latency_ms = 82
    /\ results[2].latency_ms = 64
    /\ results[3].latency_ms = 74
    /\ IsPrefix(<< 124 >> \o Q3Id \o << 124 >> \o Doc3Id \o << 124 >>,
                TableRows(fs.files[report_name(date_str)])[3])

(***************************************************************************)
(* C9.  answer_question's fallback.                                        *)
(***************************************************************************)
NoRule(q) == ~Rule1(q) /\ ~Rule2(q) /\ ~Rule3(q)

Periods(s) == {i \in DOMAIN s : s[i] = DOT}

\* The answer is the document's text up to and including its first period.
UpToFirstPeriod(answer, text) ==
    /\ IsPrefix(answer, text)
    /\ Periods(answer) = {Len(answer)}
    /\ \A i \in Periods(text) : i >= Len(answer)

\* C9 as stated: when no rule matches, the answer is a prefix of the document's
\* text, ends with that text's first period and holds no other period.
C9_Original ==
    (call.op = "answer_question" /\ NoRule(call.question)) =>
        UpToFirstPeriod(ret, call.doc.text)

\* C9 as amended: when no rule matches, the answer is the text up to and
\* including its first period if the text has a period, and otherwise the whole
\* text followed by a period; either way its only period is its last character.
C9_FallbackFirstSentence ==
    (call.op = "answer_question" /\ NoRule(call.question)) =>
        /\ Periods(ret) = {Len(ret)}
        /\ Periods(call.doc.text) # {} => UpToFirstPeriod(ret, call.doc.text)
        /\ Periods(call.doc.text) = {} => ret = call.doc.text \o << DOT >>

\* No rule matches and the document's text has no period.
C9_Witness ==
    /\ call.op = "answer_question"
    /\ NoRule(call.question)
    /\ call.doc.text # << >>
    /\ Periods(call.doc.text) = {}
    /\ ret = call.doc.text \o << DOT >>

(***************************************************************************)
(* C10.  write_report with an empty results list.                          *)
(***************************************************************************)
\* C10: a write_report call with an empty results list ends in
\* ZeroDivisionError and changes nothing: no directory is made, no file is
\* created, truncated or overwritten, and nothing is printed.
C10_EmptyResultsChangeNothing ==
    [][(runs' = runs + 1 /\ call'.op = "write_report" /\ call'.results = << >>) =>
          /\ raised' = "ZeroDivisionError"
          /\ fs' = fs
          /\ console' = console]_vars

\* A call with an empty list failed on a date that already has a report: the
\* report is still there, with its table row.
C10_Witness ==
    /\ call.op = "write_report"
    /\ call.results = << >>
    /\ raised = "ZeroDivisionError"
    /\ report_name(date_str) \in DOMAIN fs.files
    /\ Len(TableRows(fs.files[report_name(date_str)])) >= 1
    /\ Len(console) = 1

====
